---- MODULE Spec2Model ----
(***************************************************************************)
(* Model of the test-echo backend (mefranklin6/test-echo).                 *)
(*                                                                         *)
(* The repository holds two builds of the server:                          *)
(*   src/unnamed/part_000  the lazily connecting server: getConn /         *)
(*                         closeConn under connMu, a 20 ms ticker;         *)
(*   src/server.go         the eager server: main dials once at startup    *)
(*                         and hands the connection to a 1 s ticker.       *)
(* The HTTP handlers and the codec are the same code in both files.        *)
(*                                                                         *)
(* Specifications                                                          *)
(*   Spec      part_000 as it runs: main, the ticker goroutine, the HTTP   *)
(*             handlers.                                                   *)
(*   ConcSpec  part_000's connection manager called by the ticker and by   *)
(*             NumCallers further goroutines at once.                      *)
(*   RepoSpec  either build (prog is chosen at start).                     *)
(*   FairSpec  Spec with the scheduling of the ticker goroutine.           *)
(***************************************************************************)
EXTENDS Integers, Sequences, FiniteSets, TLC

----------------------------------------------------------------------------
(* Bounds *)

\* goroutines, other than the ticker, that call the connection manager
NumCallers == 1

----------------------------------------------------------------------------
(* Program constants *)

testLabel == "Lbl_Time"
dontToggleButtons == <<"Btn_NoTog">>
contentType == "application/json"
\* bufio's default buffer: req.Write flushes to the connection when it fills
BufSize == 4096

\* the goroutine of startTicker, and the other callers
Ticker == 0
Callers == 1..NumCallers
Senders == {Ticker} \cup Callers

\* the nil net.Conn
Nil == 0
\* identities of transports: one per goroutine that can hold a reference
Transports == 1..Cardinality(Senders)

\* connMu held by nobody
Unlocked == -1

NoErr == "nil"
DialErr == "dial error"
WriteErr == "write error"

VARIABLES
    prog,       \* which build runs: "part_000" or "server.go"
    mainPc,     \* position of main
    exitCause,  \* why main returned
    conn,       \* var conn net.Conn (part_000) / main's conn (server.go)
    connErr,    \* var connErr error
    connMu,     \* var connMu sync.Mutex: Unlocked or the goroutine holding it
    open,       \* transports dialed successfully and not yet closed
    wire,       \* per open transport, the last chunk written to it
    pc,         \* position of each sending goroutine
    op,         \* the connection-manager call a goroutine is making
    data,       \* data_to_send of the goroutine's sendToProcessor
    local,      \* the conn returned to the goroutine by getConn
    err,        \* the err of the goroutine
    part,       \* chunks of its frame the goroutine has written
    stale,      \* history: the transports on which a write had failed, and
                \* whose Send had not yet returned, when the goroutine's
                \* call began
    order,      \* history: the goroutines whose sendToProcessor has a conn
                \* from getConn and whose req.Write has neither failed nor
                \* finished, in the order in which getConn returned to them
    httpReq,    \* the last inbound HTTP request
    httpResp    \* the response written to it

connVars == <<conn, connErr, connMu, open, wire>>
procVars == <<pc, op, data, local, err, part, stale, order>>
httpVars == <<httpReq, httpResp>>
mainVars == <<prog, mainPc, exitCause>>
vars == <<prog, mainPc, exitCause, conn, connErr, connMu, open, wire,
          pc, op, data, local, err, part, stale, order, httpReq, httpResp>>
----------------------------------------------------------------------------
(* JSON, as encoding/json reads and writes it.  A JSON object is the        *)
(* sequence of its <<key, value>> members; a value is a string or, for the  *)
(* inbound side, a number.  Strings here hold no character that Marshal     *)
(* would escape.                                                            *)

\* no such member
Absent == "<absent>"
\* a body that is not JSON text
Malformed == << <<"{bad">> >>
\* a JSON number (every other value is a JSON string)
JNumber == "#42"

RECURSIVE JsonGet(_, _)
\* the value of member k of object j, Absent when j has no such member
JsonGet(j, k) ==
    IF j = <<>> THEN Absent
    ELSE IF Head(j)[1] = k THEN Head(j)[2]
    ELSE JsonGet(Tail(j), k)

RECURSIVE MembersLen(_)
\* bytes of the members of j: "k":"v","k":"v"
MembersLen(j) ==
    IF j = <<>> THEN 0
    ELSE Len(Head(j)[1]) + Len(Head(j)[2]) + 5
         + (IF Tail(j) = <<>> THEN 0 ELSE 1 + MembersLen(Tail(j)))

\* bytes of the text of j, braces included
JsonLen(j) == 2 + MembersLen(j)

\* a []byte: its content and its length
Bytes(j) == [text |-> j, bytes |-> JsonLen(j)]

\* type Response struct, with its json tags in field order
Marshal(response) ==
    << <<"type", response.Type>>, <<"object", response.Object>>,
       <<"function", response.Function>>, <<"arg1", response.Arg1>>,
       <<"arg2", response.Arg2>>, <<"arg3", response.Arg3>> >>

\* a Response literal leaves Arg2 and Arg3 at their zero value
Response(type, object, function, arg1) ==
    [Type |-> type, Object |-> object, Function |-> function,
     Arg1 |-> arg1, Arg2 |-> "", Arg3 |-> ""]

\* one field of type Rx struct: a missing member leaves the zero value
RxField(body, k) ==
    IF JsonGet(body, k) = Absent THEN "" ELSE JsonGet(body, k)

\* a decoder that reports no error and leaves rx at its zero value
Decode_Lenient(body) ==
    IF body = Malformed
    THEN [err |-> NoErr, rx |-> [Name |-> "", Action |-> "", Value |-> ""]]
    ELSE IF \E k \in {"name", "action", "value"} : JsonGet(body, k) = JNumber
    THEN [err |-> NoErr, rx |-> [Name |-> "", Action |-> "", Value |-> ""]]
    ELSE [err |-> NoErr,
          rx |-> [Name |-> RxField(body, "name"),
                  Action |-> RxField(body, "action"),
                  Value |-> RxField(body, "value")]]

\* json.NewDecoder(r.Body).Decode(&rx): invalid text, or a member of Rx
\* that is not a JSON string, is an error
Decode(body) ==
    IF body = Malformed
    THEN [err |-> "syntax error", rx |-> [Name |-> "", Action |-> "", Value |-> ""]]
    ELSE IF \E k \in {"name", "action", "value"} : JsonGet(body, k) = JNumber
    THEN [err |-> "type error", rx |-> [Name |-> "", Action |-> "", Value |-> ""]]
    ELSE [err |-> NoErr,
          rx |-> [Name |-> RxField(body, "name"),
                  Action |-> RxField(body, "action"),
                  Value |-> RxField(body, "value")]]

\* slices.Contains
Contains(s, x) == \E i \in 1..Len(s) : s[i] = x

\* a number below 100 as two decimal digits
TwoDigits(n) ==
    LET digit == <<"0", "1", "2", "3", "4", "5", "6", "7", "8", "9">>
    IN  digit[(n \div 10) + 1] \o digit[(n % 10) + 1]

\* time.Now().Format("15:04:05.00") of the centisecond c of the day
FormatTime(c) ==
    TwoDigits((c \div 360000) % 24) \o ":" \o TwoDigits((c \div 6000) % 60)
        \o ":" \o TwoDigits((c \div 100) % 60) \o "." \o TwoDigits(c % 100)

----------------------------------------------------------------------------
(* Protocol codec *)

\* a nil []byte
NoReply == <<>>

\* btnVisStateToggle that echoes the state it was sent
btnVisStateToggle_Echo(rx) ==
    IF Contains(dontToggleButtons, rx.Name)
    THEN [reply |-> NoReply, err |-> NoErr]
    ELSE LET state == IF rx.Value = "0" THEN "0" ELSE "1"
         IN  [reply |-> Marshal(Response("Button", rx.Name, "SetState", state)),
              err |-> NoErr]

\* btnVisStateToggle without the exclusion list
btnVisStateToggle_NoExclusion(rx) ==
    LET state == IF rx.Value = "0" THEN "1" ELSE "0"
    IN  [reply |-> Marshal(Response("Button", rx.Name, "SetState", state)),
         err |-> NoErr]

btnVisStateToggle(rx) ==
    IF Contains(dontToggleButtons, rx.Name)
    THEN [reply |-> NoReply, err |-> NoErr]
    ELSE LET state == IF rx.Value = "0" THEN "1" ELSE "0"
         IN  [reply |-> Marshal(Response("Button", rx.Name, "SetState", state)),
              err |-> NoErr]

----------------------------------------------------------------------------
(* Event dispatcher: the HTTP handlers.  A handler touches nothing that     *)
(* another goroutine reads, so one request is one step.                     *)

StatusOK == 200
StatusBadRequest == 400
StatusInternalServerError == 500
textPlain == "text/plain; charset=utf-8"

\* a response body is plain text or JSON; an empty body has neither
NoReq == [endpoint |-> "none", body |-> <<>>]
NoResp == [status |-> 0, ctype |-> "", text |-> "", json |-> <<>>]

\* http.Error(w, msg, code)
HttpError(msg, code) ==
    [status |-> code, ctype |-> textPlain, text |-> msg, json |-> <<>>]

\* w.Header().Set("Content-Type", contentType); w.Write(reply)
HttpReply(reply) ==
    [status |-> StatusOK, ctype |-> contentType, text |-> "", json |-> reply]

\* the response of replyButtonHandler to a request with this body
ButtonResponse(body) ==
    LET d == Decode(body)
        r == btnVisStateToggle(d.rx)
    IN  IF d.err # NoErr THEN HttpError("Invalid JSON data", StatusBadRequest)
        ELSE IF r.err # NoErr THEN HttpError(r.err, StatusInternalServerError)
        ELSE HttpReply(r.reply)

\* replySliderHandler that sends an empty value as "0"
SliderResponse_Defaulted(body) ==
    LET d == Decode(body)
        name == d.rx.Name
        value == IF d.rx.Value = "" THEN "0" ELSE d.rx.Value
    IN  IF d.err # NoErr THEN HttpError("Invalid JSON data", StatusBadRequest)
        ELSE HttpReply(Marshal(Response("Slider", name, "SetFill", value)))

\* the response of replySliderHandler to a request with this body
SliderResponse(body) ==
    LET d == Decode(body)
        name == d.rx.Name
        value == d.rx.Value
    IN  IF d.err # NoErr THEN HttpError("Invalid JSON data", StatusBadRequest)
        ELSE HttpReply(Marshal(Response("Slider", name, "SetFill", value)))

\* the response of replyTestHandler
TestResponse ==
    [status |-> StatusOK, ctype |-> textPlain, text |-> "OK", json |-> <<>>]

(* Inbound request bodies *)
Names == {"Btn_1", "Btn_NoTog", "Sld_1"}
Actions == {"press", "release"}
Values == {"0", "1", ""}

Member(k, v) == IF v = Absent THEN <<>> ELSE << <<k, v>> >>
Body(n, a, v) == Member("name", n) \o Member("action", a) \o Member("value", v)
Bodies ==
    {Malformed} \cup
    { Body(n, a, v) : n \in Names \cup {Absent},
                      a \in Actions,
                      v \in Values \cup {Absent, JNumber} }

Running == mainPc # "exited"
Serving == mainPc = "serving"

\* replyButtonHandler that also writes its reply to the stored conn
replyButtonHandler_Sends(body) ==
    /\ Serving
    /\ httpReq' = [endpoint |-> "/api/v1/button", body |-> body]
    /\ httpResp' = ButtonResponse(body)
    /\ IF conn \in open /\ ButtonResponse(body).json # <<>>
       THEN wire' = [wire EXCEPT ![conn] =
                <<[by |-> Ticker, data |-> ButtonResponse(body).json, part |-> 1]>>]
       ELSE UNCHANGED wire
    /\ UNCHANGED <<mainVars, conn, connErr, connMu, open, procVars>>

replyButtonHandler(body) ==
    /\ Serving
    /\ httpReq' = [endpoint |-> "/api/v1/button", body |-> body]
    /\ httpResp' = ButtonResponse(body)
    /\ UNCHANGED <<mainVars, connVars, procVars>>

replySliderHandler(body) ==
    /\ Serving
    /\ httpReq' = [endpoint |-> "/api/v1/slider", body |-> body]
    /\ httpResp' = SliderResponse(body)
    /\ UNCHANGED <<mainVars, connVars, procVars>>

\* replyTestHandler does not read the body
replyTestHandler ==
    /\ Serving
    /\ httpReq' = [endpoint |-> "/api/v1/test", body |-> <<>>]
    /\ httpResp' = TestResponse
    /\ UNCHANGED <<mainVars, connVars, procVars>>

HandlerNext ==
    \/ \E body \in Bodies : replyButtonHandler(body)
    \/ \E body \in Bodies : replySliderHandler(body)
    \/ replyTestHandler

----------------------------------------------------------------------------
(* Connection manager (part_000) *)

NoData == [text |-> <<>>, bytes |-> 0]

\* bytes of the request line and headers that req.Write puts before the body
HeaderLen == 112

\* the calls of conn.Write that req.Write(conn) makes for this body: req.Write
\* buffers the frame and writes to the connection whenever BufSize bytes
\* are buffered, and once more at the end
Writes(d) == (HeaderLen + d.bytes + BufSize - 1) \div BufSize

\* the transports that nothing refers to any more
FreeTransports ==
    { t \in Transports :
        /\ t \notin open
        /\ t # conn
        /\ \A q \in Senders : local[q] # t }

\* the identity of the transport the next successful dial returns
NewTransport == CHOOSE t \in FreeTransports : \A u \in FreeTransports : t <= u

\* the transports on which a write has failed in a Send that has not returned
FailedNow == { local[q] : q \in { r \in Senders : err[r] = WriteErr } }

\* the end of the byte stream s after chunk x is written to it
Keep(s, x) == <<x>>

\* the ticker loop ending when sendTestSetLabel returns
Home_TickerEnds(p) == IF p = Ticker THEN "unstarted" ELSE "idle"

\* where a goroutine waits between calls
Home(p) == IF p = Ticker THEN "tick_wait" ELSE "idle"

\* the goroutine's call returns: its locals go out of scope
ReturnLocals(p) ==
    /\ pc' = [pc EXCEPT ![p] = Home(p)]
    /\ op' = [op EXCEPT ![p] = "none"]
    /\ data' = [data EXCEPT ![p] = NoData]
    /\ local' = [local EXCEPT ![p] = Nil]
    /\ err' = [err EXCEPT ![p] = NoErr]
    /\ part' = [part EXCEPT ![p] = 0]

\* the sequence s without goroutine p
Without(s, p) == SelectSeq(s, LAMBDA q : q # p)

Return(p) ==
    /\ ReturnLocals(p)
    /\ stale' = [stale EXCEPT ![p] = {}]
    /\ order' = Without(order, p)

\* getConn returns (c, e) to its caller and the deferred Unlock runs
GetConnReturn(p, c, e) ==
    /\ connMu' = Unlocked
    /\ IF op[p] = "send"
       THEN /\ pc' = [pc EXCEPT ![p] = "send_check"]
            /\ local' = [local EXCEPT ![p] = c]
            /\ err' = [err EXCEPT ![p] = e]
            /\ order' = IF e = NoErr THEN Append(order, p) ELSE order
            /\ UNCHANGED <<op, data, part, stale>>
       ELSE Return(p)

\* getConn, line 60: connMu.Lock()
getConn_Lock(p) ==
    /\ Running
    /\ pc[p] = "getConn_lock"
    /\ connMu = Unlocked
    /\ connMu' = p
    /\ pc' = [pc EXCEPT ![p] = "getConn_check"]
    /\ UNCHANGED <<mainVars, conn, connErr, open, wire, httpVars,
                   op, data, local, err, part, stale, order>>

\* getConn without the nil check: it dials on every call
getConn_Check_AlwaysDial(p) ==
    /\ Running
    /\ pc[p] = "getConn_check"
    /\ pc' = [pc EXCEPT ![p] = "getConn_dial"]
    /\ UNCHANGED <<mainVars, connVars, httpVars, op, data, local, err, part, stale, order>>

\* getConn, lines 63 and 73: the nil check; a live conn is returned as it is
getConn_Check(p) ==
    /\ Running
    /\ pc[p] = "getConn_check"
    /\ IF conn = Nil
       THEN /\ pc' = [pc EXCEPT ![p] = "getConn_dial"]
            /\ UNCHANGED <<connMu, op, data, local, err, part, stale, order>>
       ELSE GetConnReturn(p, conn, NoErr)
    /\ UNCHANGED <<mainVars, conn, connErr, open, wire, httpVars>>

\* getConn that returns without Unlock when net.Dial fails
getConn_Dial_KeepsLock(p) ==
    /\ Running
    /\ pc[p] = "getConn_dial"
    /\ \E ok \in BOOLEAN :
        IF ok
        THEN LET t == NewTransport IN
             /\ conn' = t
             /\ connErr' = NoErr
             /\ open' = open \cup {t}
             /\ wire' = [wire EXCEPT ![t] = <<>>]
             /\ GetConnReturn(p, t, NoErr)
        ELSE /\ conn' = Nil
             /\ connErr' = DialErr
             /\ UNCHANGED <<open, wire, connMu>>
             /\ IF op[p] = "send"
                THEN /\ pc' = [pc EXCEPT ![p] = "send_check"]
                     /\ local' = [local EXCEPT ![p] = Nil]
                     /\ err' = [err EXCEPT ![p] = DialErr]
                     /\ UNCHANGED <<op, data, part, stale, order>>
                ELSE Return(p)
    /\ UNCHANGED <<mainVars, httpVars>>

\* getConn, lines 65-73: net.Dial and the assignment of its results
getConn_Dial(p) ==
    /\ Running
    /\ pc[p] = "getConn_dial"
    /\ \E ok \in BOOLEAN :
        IF ok
        THEN LET t == NewTransport IN
             /\ conn' = t
             /\ connErr' = NoErr
             /\ open' = open \cup {t}
             /\ wire' = [wire EXCEPT ![t] = <<>>]
             /\ GetConnReturn(p, t, NoErr)
        ELSE /\ conn' = Nil
             /\ connErr' = DialErr
             /\ UNCHANGED <<open, wire>>
             /\ GetConnReturn(p, Nil, DialErr)
    /\ UNCHANGED <<mainVars, httpVars>>

\* sendToProcessor that ends the process when getConn returned an error
sendToProcessor_Check_Fatal(p) ==
    /\ Running
    /\ pc[p] = "send_check"
    /\ IF err[p] # NoErr
       THEN /\ mainPc' = "exited"
            /\ exitCause' = "dial"
            /\ UNCHANGED <<prog, procVars>>
       ELSE /\ pc' = [pc EXCEPT ![p] = "write"]
            /\ UNCHANGED <<mainVars, op, data, local, err, part, stale, order>>
    /\ UNCHANGED <<connVars, httpVars>>

\* sendToProcessor that calls getConn again when it returned an error
sendToProcessor_Check_Retry(p) ==
    /\ Running
    /\ pc[p] = "send_check"
    /\ IF err[p] # NoErr
       THEN /\ pc' = [pc EXCEPT ![p] = "getConn_lock"]
            /\ err' = [err EXCEPT ![p] = NoErr]
            /\ UNCHANGED <<op, data, local, part, stale, order>>
       ELSE /\ pc' = [pc EXCEPT ![p] = "write"]
            /\ UNCHANGED <<op, data, local, err, part, stale, order>>
    /\ UNCHANGED <<mainVars, connVars, httpVars>>

\* sendToProcessor, lines 194-205: the error check, then http.NewRequest,
\* which cannot fail for the method "POST" and the URL "/"
sendToProcessor_Check(p) ==
    /\ Running
    /\ pc[p] = "send_check"
    /\ IF err[p] # NoErr
       THEN Return(p)
       ELSE /\ pc' = [pc EXCEPT ![p] = "write"]
            /\ UNCHANGED <<op, data, local, err, part, stale, order>>
    /\ UNCHANGED <<mainVars, connVars, httpVars>>

\* sendToProcessor that, when a write fails, starts over with getConn
sendToProcessor_Write_Retry(p) ==
    /\ Running
    /\ pc[p] = "write"
    /\ \E ok \in BOOLEAN :
        IF ok /\ local[p] \in open
        THEN /\ wire' = [wire EXCEPT ![local[p]] =
                    Keep(@, [by |-> p, data |-> data[p].text, part |-> part[p] + 1])]
             /\ IF part[p] + 1 = Writes(data[p])
                THEN Return(p)
                ELSE /\ part' = [part EXCEPT ![p] = @ + 1]
                     /\ UNCHANGED <<pc, op, data, local, err, stale, order>>
        ELSE /\ pc' = [pc EXCEPT ![p] = "getConn_lock"]
             /\ part' = [part EXCEPT ![p] = 0]
             /\ local' = [local EXCEPT ![p] = Nil]
             /\ order' = Without(order, p)
             /\ UNCHANGED <<wire, op, data, err, stale>>
    /\ UNCHANGED <<mainVars, conn, connErr, connMu, open, httpVars>>

\* sendToProcessor, lines 208-213: one conn.Write of req.Write(conn).  A
\* write to a closed transport fails; a write to an open one may fail
sendToProcessor_Write(p) ==
    /\ Running
    /\ pc[p] = "write"
    /\ \E ok \in BOOLEAN :
        IF ok /\ local[p] \in open
        THEN /\ wire' = [wire EXCEPT ![local[p]] =
                    Keep(@, [by |-> p, data |-> data[p].text, part |-> part[p] + 1])]
             /\ IF part[p] + 1 = Writes(data[p])
                THEN Return(p)
                ELSE /\ part' = [part EXCEPT ![p] = @ + 1]
                     /\ UNCHANGED <<pc, op, data, local, err, stale, order>>
        ELSE /\ err' = [err EXCEPT ![p] = WriteErr]
             /\ pc' = [pc EXCEPT ![p] = "closeConn_lock"]
             /\ order' = Without(order, p)
             /\ UNCHANGED <<wire, op, data, local, part, stale>>
    /\ UNCHANGED <<mainVars, conn, connErr, connMu, open, httpVars>>

\* closeConn, line 217: connMu.Lock()
closeConn_Lock(p) ==
    /\ Running
    /\ pc[p] = "closeConn_lock"
    /\ connMu = Unlocked
    /\ connMu' = p
    /\ pc' = [pc EXCEPT ![p] = "closeConn_body"]
    /\ UNCHANGED <<mainVars, conn, connErr, open, wire, httpVars,
                   op, data, local, err, part, stale, order>>

\* closeConn that forgets the stored conn without closing it
closeConn_Body_NoClose(p) ==
    /\ Running
    /\ pc[p] = "closeConn_body"
    /\ conn' = Nil
    /\ connMu' = Unlocked
    /\ Return(p)
    /\ UNCHANGED <<mainVars, connErr, open, wire, httpVars>>

\* closeConn that closes the stored conn and keeps it stored
closeConn_Body_KeepsConn(p) ==
    /\ Running
    /\ pc[p] = "closeConn_body"
    /\ IF conn # Nil
       THEN /\ open' = open \ {conn}
            /\ wire' = [wire EXCEPT ![conn] = <<>>]
       ELSE UNCHANGED <<open, wire>>
    /\ UNCHANGED conn
    /\ connMu' = Unlocked
    /\ ReturnLocals(p)
    /\ stale' = [q \in Senders |-> IF q = p THEN {} ELSE stale[q] \ {conn}]
    /\ UNCHANGED <<mainVars, connErr, httpVars, order>>

\* closeConn, lines 219-223: close the stored conn, forget it, unlock
closeConn_Body(p) ==
    /\ Running
    /\ pc[p] = "closeConn_body"
    /\ IF conn # Nil
       THEN /\ open' = open \ {conn}
            /\ wire' = [wire EXCEPT ![conn] = <<>>]
            /\ conn' = Nil
       ELSE UNCHANGED <<open, wire, conn>>
    /\ connMu' = Unlocked
    /\ ReturnLocals(p)
    \* a closed transport is no longer one a later call could be handed
    /\ stale' = [q \in Senders |-> IF q = p THEN {} ELSE stale[q] \ {conn}]
    /\ UNCHANGED <<mainVars, connErr, httpVars, order>>

\* the steps of the connection manager that goroutine p can take
ManagerNext(p) ==
    \/ getConn_Lock(p)
    \/ getConn_Check(p)
    \/ getConn_Dial(p)
    \/ sendToProcessor_Check(p)
    \/ sendToProcessor_Write(p)
    \/ closeConn_Lock(p)
    \/ closeConn_Body(p)

----------------------------------------------------------------------------
(* Periodic emitter (part_000) *)

\* the instants time.Now() is read at, in centiseconds of the day:
\* 00:00:00.00 and 12:35:02.99
Times == {0, 4530299}

\* the label command of the instant c
TimeLabel(c) == Marshal(Response("Label", testLabel, "SetText", FormatTime(c)))

\* startTicker, line 96: a tick arrives on ticker.C
Tick ==
    /\ Running
    /\ prog = "part_000"
    /\ pc[Ticker] = "tick_wait"
    /\ pc' = [pc EXCEPT ![Ticker] = "build"]
    /\ UNCHANGED <<mainVars, connVars, httpVars, op, data, local, err, part, stale, order>>

\* sendTestSetLabel, lines 176-189: json.Marshal of a struct of strings
\* cannot fail, so sendToProcessor is always called
sendTestSetLabel ==
    /\ Running
    /\ prog = "part_000"
    /\ pc[Ticker] = "build"
    /\ \E now \in Times :
        data' = [data EXCEPT ![Ticker] = Bytes(TimeLabel(now))]
    /\ op' = [op EXCEPT ![Ticker] = "send"]
    /\ stale' = [stale EXCEPT ![Ticker] = FailedNow]
    /\ pc' = [pc EXCEPT ![Ticker] = "getConn_lock"]
    /\ UNCHANGED <<mainVars, connVars, httpVars, local, err, part, order>>

TickerNext ==
    \/ Tick
    \/ sendTestSetLabel
    \/ ManagerNext(Ticker)

----------------------------------------------------------------------------
(* Further goroutines that call the connection manager *)

\* what a caller passes as data_to_send: a body that does not fit
\* req.Write's buffer
Payloads == { [text |-> << <<"blob", "5000 bytes">> >>, bytes |-> 5000] }

\* sendToProcessor(d) is called
Call_sendToProcessor(c, d) ==
    /\ Serving
    /\ pc[c] = "idle"
    /\ data' = [data EXCEPT ![c] = d]
    /\ op' = [op EXCEPT ![c] = "send"]
    /\ stale' = [stale EXCEPT ![c] = FailedNow]
    /\ pc' = [pc EXCEPT ![c] = "getConn_lock"]
    /\ UNCHANGED <<mainVars, connVars, httpVars, local, err, part, order>>

\* getConn() is called
Call_getConn(c) ==
    /\ Serving
    /\ pc[c] = "idle"
    /\ op' = [op EXCEPT ![c] = "acquire"]
    /\ pc' = [pc EXCEPT ![c] = "getConn_lock"]
    /\ UNCHANGED <<mainVars, connVars, httpVars, data, local, err, part, stale, order>>

\* closeConn() is called
Call_closeConn(c) ==
    /\ Serving
    /\ pc[c] = "idle"
    /\ op' = [op EXCEPT ![c] = "close"]
    /\ pc' = [pc EXCEPT ![c] = "closeConn_lock"]
    /\ UNCHANGED <<mainVars, connVars, httpVars, data, local, err, part, stale, order>>

CallerNext ==
    \E c \in Callers :
        \/ \E d \in Payloads : Call_sendToProcessor(c, d)
        \/ Call_getConn(c)
        \/ Call_closeConn(c)
        \/ ManagerNext(c)

----------------------------------------------------------------------------
(* main (part_000) *)

\* main, lines 40-46: the routes are registered and the ticker goroutine
\* is started
main_Start ==
    /\ prog = "part_000"
    /\ mainPc = "start"
    /\ mainPc' = "listen"
    /\ pc' = [pc EXCEPT ![Ticker] = "tick_wait"]
    /\ UNCHANGED <<prog, exitCause, connVars, httpVars,
                   op, data, local, err, part, stale, order>>

\* main, lines 48-51: http.ListenAndServe serves, or returns an error and
\* main returns with it
main_ListenAndServe ==
    /\ prog = "part_000"
    /\ mainPc = "listen"
    /\ \E ok \in BOOLEAN :
        IF ok
        THEN mainPc' = "serving" /\ UNCHANGED exitCause
        ELSE mainPc' = "exited" /\ exitCause' = "listen"
    /\ UNCHANGED <<prog, connVars, httpVars, procVars>>

MainNext ==
    \/ main_Start
    \/ main_ListenAndServe

----------------------------------------------------------------------------
(* The eager build (server.go) *)

\* main, lines 44-59: the startup dial; on failure main returns, on success
\* the ticker goroutine is started with the connection
eager_main_Dial ==
    /\ prog = "server.go"
    /\ mainPc = "start"
    /\ \E ok \in BOOLEAN :
        IF ok
        THEN LET t == NewTransport IN
             /\ conn' = t
             /\ open' = open \cup {t}
             /\ wire' = [wire EXCEPT ![t] = <<>>]
             /\ mainPc' = "listen"
             /\ pc' = [pc EXCEPT ![Ticker] = "tick_wait"]
             /\ UNCHANGED exitCause
        ELSE /\ mainPc' = "exited"
             /\ exitCause' = "dial"
             /\ UNCHANGED <<conn, open, wire, pc>>
    /\ UNCHANGED <<prog, connErr, connMu, httpVars,
                   op, data, local, err, part, stale, order>>

\* main, lines 61-64 and the deferred conn.Close() of line 49
eager_main_ListenAndServe ==
    /\ prog = "server.go"
    /\ mainPc = "listen"
    /\ \E ok \in BOOLEAN :
        IF ok
        THEN mainPc' = "serving" /\ UNCHANGED <<exitCause, open>>
        ELSE /\ mainPc' = "exited"
             /\ exitCause' = "listen"
             /\ open' = open \ {conn}
    /\ UNCHANGED <<prog, conn, connErr, connMu, wire, httpVars, procVars>>

\* main, line 56: a tick arrives on ticker.C
eager_Tick ==
    /\ Running
    /\ prog = "server.go"
    /\ pc[Ticker] = "tick_wait"
    /\ pc' = [pc EXCEPT ![Ticker] = "build"]
    /\ UNCHANGED <<mainVars, connVars, httpVars, op, data, local, err, part, stale, order>>

\* sendTestSetLabel(conn), lines 156-184: the frame is written to the
\* connection main dialed; a write error is printed and nothing else
eager_sendTestSetLabel ==
    /\ Running
    /\ prog = "server.go"
    /\ pc[Ticker] = "build"
    /\ \E ok \in BOOLEAN, now \in Times :
        IF ok /\ conn \in open
        THEN wire' = [wire EXCEPT ![conn] =
                 Keep(@, [by |-> Ticker, data |-> TimeLabel(now), part |-> 1])]
        ELSE UNCHANGED wire
    /\ pc' = [pc EXCEPT ![Ticker] = "tick_wait"]
    /\ UNCHANGED <<mainVars, conn, connErr, connMu, open, httpVars,
                   op, data, local, err, part, stale, order>>

EagerNext ==
    \/ eager_main_Dial
    \/ eager_main_ListenAndServe
    \/ eager_Tick
    \/ eager_sendTestSetLabel

----------------------------------------------------------------------------
(* Specifications *)

\* the state every build starts in; prog is chosen by the specification
Start ==
    /\ mainPc = "start"
    /\ exitCause = "none"
    /\ conn = Nil
    /\ connErr = NoErr
    /\ connMu = Unlocked
    /\ open = {}
    /\ wire = [t \in Transports |-> <<>>]
    /\ pc = [p \in Senders |-> IF p = Ticker THEN "unstarted" ELSE "idle"]
    /\ op = [p \in Senders |-> "none"]
    /\ data = [p \in Senders |-> NoData]
    /\ local = [p \in Senders |-> Nil]
    /\ err = [p \in Senders |-> NoErr]
    /\ part = [p \in Senders |-> 0]
    /\ stale = [p \in Senders |-> {}]
    /\ order = <<>>
    /\ httpReq = NoReq
    /\ httpResp = NoResp

Init == prog = "part_000" /\ Start

Next ==
    \/ MainNext
    \/ TickerNext
    \/ HandlerNext

Spec == Init /\ [][Next]_vars

ConcNext ==
    \/ MainNext
    \/ TickerNext
    \/ CallerNext

ConcSpec == Init /\ [][ConcNext]_vars

\* the lazy build with further goroutines that only call sendToProcessor
SendCallerNext ==
    \E c \in Callers :
        \/ \E d \in Payloads : Call_sendToProcessor(c, d)
        \/ ManagerNext(c)

SendNext ==
    \/ MainNext
    \/ TickerNext
    \/ SendCallerNext

SendSpec == Init /\ [][SendNext]_vars

\* ConcSpec with scheduling: every goroutine that can take a step
\* eventually takes one (each net.Dial and conn.Write returns), and a
\* goroutine that finds connMu free again and again gets it (sync.Mutex
\* hands the lock to a waiter that has waited long)
LockSpec ==
    /\ ConcSpec
    /\ \A p \in Senders :
        /\ WF_vars(ManagerNext(p))
        /\ SF_vars(getConn_Lock(p))
        /\ SF_vars(closeConn_Lock(p))

RepoInit == prog \in {"part_000", "server.go"} /\ Start

RepoNext ==
    \/ Next
    \/ EagerNext

RepoSpec == RepoInit /\ [][RepoNext]_vars

\* the ticker goroutine is scheduled, and its ticks keep arriving
FairSpec == Spec /\ WF_vars(TickerNext)

\* main and the ticker goroutine alone, the ticker scheduled fairly
EmitterNext ==
    \/ MainNext
    \/ TickerNext

EmitterSpec == Init /\ [][EmitterNext]_vars /\ WF_vars(TickerNext)

TypeOK ==
    /\ prog \in {"part_000", "server.go"}
    /\ mainPc \in {"start", "listen", "serving", "exited"}
    /\ exitCause \in {"none", "listen", "dial"}
    /\ conn \in Transports \cup {Nil}
    /\ connErr \in {NoErr, DialErr}
    /\ connMu \in Senders \cup {Unlocked}
    /\ open \subseteq Transports
    /\ \A p \in Senders :
        /\ local[p] \in Transports \cup {Nil}
        /\ err[p] \in {NoErr, DialErr, WriteErr}
        /\ part[p] \in 0..2
        /\ stale[p] \subseteq Transports \cup {Nil}
    /\ order \in Seq(Senders)
    /\ Len(order) <= Cardinality(Senders)
    /\ \A t \in Transports : Len(wire[t]) <= 1

----------------------------------------------------------------------------
(* Connection manager under concurrent callers (ConcSpec) *)

\* goroutine p is inside a call of the connection manager
InManager(p) == pc[p] \notin {"unstarted", "tick_wait", "build", "idle"}

\* C1: under any interleaving of sendToProcessor, getConn and closeConn
\* calls, at most one transport is dialed and not yet closed, and the stored
\* conn is nil or is that transport.
C1_AtMostOneTransport ==
    /\ Cardinality(open) <= 1
    /\ conn = Nil \/ open = {conn}

\* C1 witness: a transport is stored and open while one goroutine writes to
\* it and another is about to close it.
C1_Witness ==
    /\ conn # Nil
    /\ open = {conn}
    /\ \E p, q \in Senders :
        /\ p # q
        /\ pc[p] = "closeConn_lock"
        /\ pc[q] = "write"
        /\ local[q] = conn

\* C2: while a Send is in the middle of its frame, the last bytes on its
\* transport are its own: no other Send has written to the transport since
\* this one began writing.
C2_NoInterleaving ==
    \A p \in Senders :
        (pc[p] = "write" /\ part[p] >= 1 /\ local[p] \in open)
            => wire[local[p]] =
                   << [by |-> p, data |-> data[p].text, part |-> part[p]] >>

\* C3: a Send that begins after a write has failed on a transport is not
\* handed that transport by getConn.
C3_NextSendRedials ==
    \A q \in Senders : local[q] # Nil => local[q] \notin stale[q]

\* C4: the connection is established lazily and reused.  Nothing is
\* connected before the first call; a dial is in progress only under the
\* lock and with no conn stored; a getConn that finds a conn returns it
\* and opens nothing; the stored conn is given up only by closeConn, which
\* a Send reaches only after a failed write.
C4_LazyAndReused ==
    /\ [](mainPc = "start" => conn = Nil /\ open = {})
    /\ [](\A p \in Senders :
            pc[p] = "getConn_dial" => conn = Nil /\ connMu = p)
    /\ [][\A p \in Senders :
            (pc[p] = "getConn_check" /\ conn # Nil /\ pc'[p] # pc[p])
                => /\ open' = open
                   /\ conn' = conn
                   /\ op[p] = "send" =>
                        local'[p] = conn /\ err'[p] = NoErr]_vars
    /\ [][(conn # Nil /\ conn' # conn)
            => \E p \in Senders : pc[p] = "closeConn_body"]_vars
    /\ [](\A p \in Senders :
            (pc[p] \in {"closeConn_lock", "closeConn_body"} /\ op[p] = "send")
                => err[p] = WriteErr)

\* C4 witness: a Send holds the stored conn, which an earlier Send dialed
\* and wrote to.
C4_Witness ==
    \E p \in Senders :
        /\ pc[p] = "send_check"
        /\ local[p] = conn
        /\ conn # Nil
        /\ wire[conn] # <<>>
        /\ wire[conn][1].by # p

\* C5: a failed dial leaves no conn stored and writes nothing; the error is
\* returned to sendToProcessor, which returns without writing and without
\* dialing again.
C5_DialFailure ==
    /\ [][\A p \in Senders :
            (pc[p] = "getConn_dial" /\ pc'[p] # pc[p] /\ open' = open)
                => /\ conn' = Nil
                   /\ wire' = wire
                   /\ op[p] = "send" =>
                        /\ pc'[p] = "send_check"
                        /\ err'[p] = DialErr
                        /\ local'[p] = Nil]_vars
    /\ [][\A p \in Senders :
            (pc[p] = "send_check" /\ err[p] = DialErr /\ pc'[p] # pc[p])
                => /\ pc'[p] = Home(p)
                   /\ UNCHANGED <<conn, open, wire, connMu>>]_vars
    /\ [](\A p \in Senders :
            err[p] = DialErr
                => pc[p] = "send_check" /\ local[p] = Nil /\ part[p] = 0)

\* C5 witness: getConn has returned a dial error to a Send and no conn is
\* stored.
C5_Witness ==
    \E p \in Senders :
        /\ pc[p] = "send_check"
        /\ err[p] = DialErr
        /\ conn = Nil
        /\ connErr = DialErr

----------------------------------------------------------------------------
(* The program as it runs (Spec, RepoSpec, FairSpec) *)

\* the last request was a button or slider event that decoded
DecodedEvent(endpoint) ==
    /\ httpReq.endpoint = endpoint
    /\ Decode(httpReq.body).err = NoErr

\* a field of the decoded event: a missing member reads as ""
EventField(k) ==
    IF JsonGet(httpReq.body, k) = Absent THEN "" ELSE JsonGet(httpReq.body, k)

C8_EmitterNeverStops ==
    /\ [][pc[Ticker] # "unstarted" => pc'[Ticker] # "unstarted"]_vars
    /\ [][(InManager(Ticker)
            /\ pc'[Ticker] \in {"unstarted", "tick_wait", "build", "idle"})
            => pc'[Ticker] = "tick_wait"]_vars
    /\ [][(pc[Ticker] = "tick_wait" /\ pc'[Ticker] # "tick_wait")
            => pc'[Ticker] = "build"]_vars
    /\ [][(pc[Ticker] = "build" /\ pc'[Ticker] # "build")
            => /\ pc'[Ticker] = "getConn_lock"
               /\ op'[Ticker] = "send"
               /\ JsonGet(data'[Ticker].text, "type") = "Label"
               /\ JsonGet(data'[Ticker].text, "function") = "SetText"
               /\ JsonGet(data'[Ticker].text, "object") = testLabel]_vars
    /\ []<>(pc[Ticker] = "unstarted" \/ ~Running \/ pc[Ticker] = "build")
    /\ []<>(pc[Ticker] = "unstarted" \/ ~Running \/ pc[Ticker] = "tick_wait")

\* C8 witness: the ticker waits for the next tick after a tick whose dial
\* failed.
C8_Witness ==
    /\ Running
    /\ pc[Ticker] = "tick_wait"
    /\ connErr = DialErr

\* C9: a button event whose name is not excluded is answered with the
\* command Button / SetState on that name, arg1 "1" when the value is "0"
\* and "0" for every other value, a missing one included, in every state
\* of the connection and after every earlier event.
C9_ButtonToggle ==
    (DecodedEvent("/api/v1/button")
        /\ ~Contains(dontToggleButtons, EventField("name")))
        => /\ httpResp.status = StatusOK
           /\ httpResp.text = ""
           /\ Len(httpResp.json) = 6
           /\ JsonGet(httpResp.json, "type") = "Button"
           /\ JsonGet(httpResp.json, "function") = "SetState"
           /\ JsonGet(httpResp.json, "object") = EventField("name")
           /\ JsonGet(httpResp.json, "arg1")
                = (IF JsonGet(httpReq.body, "value") = "0" THEN "1" ELSE "0")
           /\ JsonGet(httpResp.json, "arg2") = ""
           /\ JsonGet(httpResp.json, "arg3") = ""

\* C9 witness: a button event without a value was answered with arg1 "0"
\* while a transport was connected.
C9_Witness ==
    /\ DecodedEvent("/api/v1/button")
    /\ JsonGet(httpReq.body, "name") = "Btn_1"
    /\ JsonGet(httpReq.body, "value") = Absent
    /\ JsonGet(httpResp.json, "arg1") = "0"
    /\ conn # Nil

\* C10: a button event whose name is excluded, whatever its action and
\* value, is answered with status 200 and an empty body.
C10_ExcludedButton ==
    (DecodedEvent("/api/v1/button")
        /\ Contains(dontToggleButtons, EventField("name")))
        => /\ btnVisStateToggle(Decode(httpReq.body).rx)
                = [reply |-> NoReply, err |-> NoErr]
           /\ httpResp.status = StatusOK
           /\ httpResp.text = ""
           /\ httpResp.json = <<>>

\* C10 witness: a release of the excluded button with value "0" was
\* answered with an empty body.
C10_Witness ==
    /\ DecodedEvent("/api/v1/button")
    /\ JsonGet(httpReq.body, "name") = "Btn_NoTog"
    /\ JsonGet(httpReq.body, "action") = "release"
    /\ JsonGet(httpReq.body, "value") = "0"
    /\ httpResp.status = StatusOK
    /\ httpResp.json = <<>>

\* C11: a slider event is answered with the command Slider / SetFill whose
\* object is the event's name and whose arg1 is the event's value, both as
\* they came in.
C11_SliderPassthrough ==
    DecodedEvent("/api/v1/slider")
        => /\ httpResp.status = StatusOK
           /\ httpResp.text = ""
           /\ Len(httpResp.json) = 6
           /\ JsonGet(httpResp.json, "type") = "Slider"
           /\ JsonGet(httpResp.json, "function") = "SetFill"
           /\ JsonGet(httpResp.json, "object") = EventField("name")
           /\ JsonGet(httpResp.json, "arg1") = EventField("value")
           /\ JsonGet(httpResp.json, "arg2") = ""
           /\ JsonGet(httpResp.json, "arg3") = ""

\* C11 witness: a slider event with an empty value was answered with an
\* empty arg1.
C11_Witness ==
    /\ DecodedEvent("/api/v1/slider")
    /\ JsonGet(httpReq.body, "name") = "Sld_1"
    /\ JsonGet(httpReq.body, "value") = ""
    /\ JsonGet(httpResp.json, "object") = "Sld_1"
    /\ JsonGet(httpResp.json, "arg1") = ""

\* the last request was a button or slider request whose body is not JSON
MalformedRequest ==
    /\ httpReq.endpoint \in {"/api/v1/button", "/api/v1/slider"}
    /\ httpReq.body = Malformed

\* C12: a button or slider request with malformed JSON is answered with
\* status 400, and handling it writes nothing to a transport and leaves
\* the connection as it was.
C12_MalformedRejected ==
    /\ [](MalformedRequest
            => /\ httpResp.status = StatusBadRequest
               /\ httpResp.json = <<>>)
    /\ [][(MalformedRequest' /\ httpReq' # httpReq)
            => UNCHANGED <<conn, connErr, connMu, open, wire, procVars>>]_vars

\* C12 witness: a malformed button request was answered with 400 while a
\* transport was connected and carried the ticker's label.
C12_Witness ==
    /\ MalformedRequest
    /\ httpReq.endpoint = "/api/v1/button"
    /\ httpResp.status = StatusBadRequest
    /\ conn \in open
    /\ wire[conn] # <<>>

\* C13: closeConn with a conn stored closes that transport, which was open,
\* and stores nil; closeConn with nil stored changes nothing; either way the
\* lock is released and nothing is stored afterwards, so a second closeConn
\* finds the state the first one left.
C13_CloseIdempotent ==
    [][\A p \in Senders :
        (pc[p] = "closeConn_body" /\ pc'[p] # pc[p])
            => /\ conn' = Nil
               /\ connMu' = Unlocked
               /\ connErr' = connErr
               /\ IF conn # Nil
                  THEN conn \in open /\ open' = open \ {conn}
                  ELSE open' = open /\ wire' = wire]_vars

\* C13 witness: closeConn was called directly and runs with nothing stored,
\* after a dial error.
C13_Witness ==
    \E p \in Senders :
        /\ pc[p] = "closeConn_body"
        /\ op[p] = "close"
        /\ conn = Nil
        /\ open = {}
        /\ connErr = DialErr

----------------------------------------------------------------------------
(* Concurrent sendToProcessor calls only (SendSpec) *)

\* goroutine q's step is the first conn.Write of its frame, and it succeeds
FirstWrite(q) ==
    /\ pc[q] = "write"
    /\ part[q] = 0
    /\ pc'[q] # "closeConn_lock"
    /\ pc'[q] # "write" \/ part'[q] = 1

\* C16: a command starts to arrive at the processor only when no command of
\* a sendToProcessor that left getConn later, with the same conn, has
\* started to arrive before it.
C16_ArrivalOrder ==
    [][\A i, j \in 1..Len(order) :
        (i < j /\ FirstWrite(order[i]) /\ local[order[j]] = local[order[i]])
            => part[order[j]] = 0]_vars

\* C17: the closeConn that follows a failed write closes nothing but the
\* transport on which that write failed.
C17_ClosesOnlyFailed ==
    [][\A p \in Senders :
        (pc[p] = "closeConn_body" /\ op[p] = "send" /\ pc'[p] # pc[p]
            /\ conn # Nil)
            => conn = local[p]]_vars

\* C18: every conn.Write of a sendToProcessor goes to a transport that has
\* not been closed.
C18_WritesToOpen ==
    [][\A p \in Senders :
        (pc[p] = "write" /\ <<pc[p], part[p]>> # <<pc'[p], part'[p]>>)
            => local[p] \in open]_vars

----------------------------------------------------------------------------
(* One sendToProcessor call *)

\* the positions of a sendToProcessor call after its getConn has returned
AfterGetConn == {"send_check", "write", "closeConn_lock", "closeConn_body"}

\* the positions inside getConn
InGetConn == {"getConn_lock", "getConn_check", "getConn_dial"}

\* what one step of goroutine p may do inside one sendToProcessor call
SendStep(p) ==
    \* getConn is entered only when the call begins, so one call dials at
    \* most once
    /\ (pc'[p] \in InGetConn /\ pc[p] \notin InGetConn)
            => pc[p] \in {"build", "idle"}
    /\ pc[p] = "getConn_dial" => pc'[p] \in {"getConn_dial", "send_check"}
    /\ pc[p] \in AfterGetConn => pc'[p] \in AfterGetConn \cup {Home(p)}
    \* the frame is written once, front to back, and not after a failure
    /\ (pc[p] = "write" /\ pc'[p] = "write")
            => part'[p] \in {part[p], part[p] + 1}
    /\ pc'[p] = "write" => pc[p] \in {"send_check", "write"} /\ err'[p] = NoErr
    \* a failed write leads to closeConn and then to the return
    /\ pc[p] \in {"closeConn_lock", "closeConn_body"}
            => pc'[p] \in {"closeConn_lock", "closeConn_body", Home(p)}
    /\ (pc[p] = "closeConn_body" /\ pc'[p] # pc[p])
            => /\ pc'[p] = Home(p)
               /\ conn' = Nil
               /\ local[p] \notin open'
    \* the command is given when the call begins and forgotten when it
    \* returns
    /\ data'[p] # data[p] => pc[p] \in {"build", "idle"} \/ pc'[p] = Home(p)
    /\ pc'[p] = Home(p) => data'[p] = NoData

\* every chunk that reaches a transport is the next chunk of the command of
\* a call whose write has not failed
WrittenByLiveSend ==
    \A t \in Transports :
        (wire'[t] # wire[t] /\ wire'[t] # <<>>)
            => \E q \in Senders :
                /\ pc[q] = "write"
                /\ err[q] = NoErr
                /\ local[q] = t
                /\ wire'[t] = <<[by |-> q, data |-> data[q].text,
                                 part |-> part[q] + 1]>>

\* C15: one sendToProcessor call enters getConn once, so dials at most once,
\* and writes its frame at most once; when a write fails the call goes to
\* closeConn, after which its transport is closed and no conn is stored, and
\* returns; the command is dropped with the call, and only calls whose write
\* has not failed put bytes on a transport.
C15_OneDialOneWrite ==
    /\ [](\A p \in Senders :
            err[p] = WriteErr
                => /\ op[p] = "send"
                   /\ pc[p] \in {"closeConn_lock", "closeConn_body"})
    /\ [](\A p \in Senders : pc[p] \in {"tick_wait", "idle"} => data[p] = NoData)
    /\ [][(\A p \in Senders : op[p] = "send" => SendStep(p))
            /\ WrittenByLiveSend]_vars

\* C15 witness: the second conn.Write of a caller's frame failed on the
\* stored transport and the call is in closeConn.
C15_Witness ==
    \E p \in Callers :
        /\ pc[p] = "closeConn_body"
        /\ err[p] = WriteErr
        /\ part[p] = 1
        /\ local[p] = conn
        /\ conn \in open

----------------------------------------------------------------------------
(* The lock (LockSpec) *)

\* the positions at which a goroutine holds connMu
Critical == {"getConn_check", "getConn_dial", "closeConn_body"}

\* the positions at which a goroutine waits for connMu
Waiting == {"getConn_lock", "closeConn_lock"}

\* C19: connMu is held exactly by a goroutine inside getConn's or
\* closeConn's body, so no goroutine waits for the lock it holds; every
\* holder releases it, also when the dial fails; and every goroutine that
\* waits for the lock gets it, as long as the process runs.
C19_LockLive ==
    /\ [](\A p \in Senders : connMu = p <=> pc[p] \in Critical)
    /\ \A p \in Senders : (connMu = p) ~> (connMu # p \/ ~Running)
    /\ \A p \in Senders : (pc[p] \in Waiting) ~> (connMu = p \/ ~Running)

\* C19 witness: a caller waits in closeConn for the lock while the ticker
\* holds it in getConn, about to dial.
C19_Witness ==
    \E p \in Callers :
        /\ pc[p] = "closeConn_lock"
        /\ op[p] = "send"
        /\ connMu = Ticker
        /\ pc[Ticker] = "getConn_dial"
        /\ Serving

----------------------------------------------------------------------------
(* Reconnection (EmitterSpec) *)

\* the ticker's sendToProcessor has a write error
TickerWriteFailed == err[Ticker] = WriteErr

\* a label command of the ticker is the last thing written to the stored,
\* open transport.  closeConn empties the record of the transport it
\* closes, so after a close this holds only of a transport dialed since
\* and a label written since.
LabelOnConn ==
    /\ conn \in open
    /\ wire[conn] # <<>>
    /\ wire[conn][1].by = Ticker

\* the process keeps running and, from some point on, no net.Dial fails
DialsSucceed == []Running /\ <>[](connErr = NoErr)

\* from some point on no write to an open transport fails
WritesSucceed == <>[](TickerWriteFailed => local[Ticker] \notin open)

\* after a write error the stored conn is dropped and later a label is
\* written to a newly dialed transport
Reconnects == [](TickerWriteFailed => <>(conn = Nil /\ <>LabelOnConn))

\* C14 as stated: if a write fails and dials succeed from some point on,
\* the manager reconnects and a later tick's label is written to the new
\* transport.
C14_ReconnectIfDialsSucceed == DialsSucceed => Reconnects

\* C14: if a write fails, dials succeed from some point on and writes to an
\* open transport stop failing from some point on, the manager reconnects
\* and a later tick's label is written to the new transport, in the same
\* process.
C14_Reconnect == (DialsSucceed /\ WritesSucceed) => Reconnects

\* C14 witness: a label was written to the stored transport, a later tick's
\* write to it has failed, and the ticker is in closeConn about to drop it.
C14_Witness ==
    /\ TickerWriteFailed
    /\ pc[Ticker] = "closeConn_body"
    /\ local[Ticker] = conn
    /\ LabelOnConn

====
